---- MODULE Spec2Model ----
(***************************************************************************)
(* The MCP chatbot client of src/client-openai.py as a state machine:      *)
(* connect_to_server_and_run opens the session and discovers the tools,    *)
(* chat_loop reads queries, process_query alternates model calls and tool  *)
(* rounds.  The model backend (OpenAI) and the tool provider (the MCP      *)
(* session) are the environment: their answers are chosen from small sets. *)
(***************************************************************************)
EXTENDS Naturals, Sequences, FiniteSets, TLC

VARIABLES
    pc,               \* position of the single coroutine
    line,             \* the line input() returned last
    transportOpen,    \* stdio_client context entered and not exited
    sessionOpen,      \* ClientSession context entered and not exited
    available_tools,  \* self.available_tools
    query,            \* the argument of the current process_query
    messages,         \* the local list `messages` of process_query
    response,         \* response.choices[0].message of the latest model call
    request,          \* arguments of the latest chat.completions.create call
    i,                \* index of the for loop over message.tool_calls
    result,           \* result.content of the latest session.call_tool
    invoked,          \* session.call_tool invocations of the current query
    history,          \* number of tool calls of each response of the query
    modelCalls,       \* chat.completions.create calls issued by the query
    stdout,           \* what the query printed last
    fault,            \* the exception raised in the latest query
    store,            \* the provider's paper store under PAPER_DIR
    reply             \* outcome of the provider's latest tool function

vars == <<pc, line, transportOpen, sessionOpen, available_tools, query,
          messages, response, request, i, result, invoked, history,
          modelCalls, stdout, fault, store, reply>>

connVars == <<transportOpen, sessionOpen, available_tools>>
convVars == <<messages, response, request, i, result, invoked, history,
              modelCalls>>
queryVars == <<line, query, convVars>>
serverVars == <<store, reply>>
clientVars == <<pc, connVars, queryVars, stdout, fault>>

----------------------------------------------------------------------------
\* Bounds of the model

\* tool requests the backend may emit in one conversation
MaxRequests == 3

\* content items of one provider result
MaxItems == 3

\* papers one arxiv search returns (max_results)
MaxResults == 2

----------------------------------------------------------------------------
\* Values

None == "None"

RECURSIVE SumSeq(_)
SumSeq(s) == IF s = <<>> THEN 0 ELSE Head(s) + SumSeq(Tail(s))

Last(s) == s[Len(s)]

\* The lines a user may type, as sequences of characters.
Inputs ==
    { <<"q", "u", "i", "t">>,
      <<"Q", "u", "I", "T">>,
      <<" ", "q", "u", "i", "t", " ">>,
      <<"q", "u", "i", "t", "s">>,
      <<" ", "h", "i">> }

Whitespace == {" ", "\t", "\n"}

\* str.lower on one character
LowerChar(c) ==
    CASE c = "Q" -> "q"
      [] c = "U" -> "u"
      [] c = "I" -> "i"
      [] c = "T" -> "t"
      [] c = "S" -> "s"
      [] c = "H" -> "h"
      [] OTHER -> c

\* str.lower
Lower(s) == [k \in 1..Len(s) |-> LowerChar(s[k])]

RECURSIVE LStrip(_)
LStrip(s) ==
    IF s # <<>> /\ Head(s) \in Whitespace THEN LStrip(Tail(s)) ELSE s

RECURSIVE RStrip(_)
RStrip(s) ==
    IF s # <<>> /\ Last(s) \in Whitespace
    THEN RStrip(SubSeq(s, 1, Len(s) - 1))
    ELSE s

\* str.strip
Strip(s) == RStrip(LStrip(s))

\* A comparison with "quit" that respects the letter case.
IsQuit_CaseSensitive(q) == q = <<"q", "u", "i", "t">>

\* query.lower() == "quit"
IsQuit(q) == Lower(q) = <<"q", "u", "i", "t">>

\* The tool descriptors a provider may list (response.tools).
SearchTool ==
    [name |-> "search_papers", description |-> "Search for papers",
     inputSchema |-> "schema_topic"]

ExtractTool ==
    [name |-> "extract_info", description |-> "Search for information",
     inputSchema |-> "schema_paper_id"]

ProviderToolLists == { <<>>, <<SearchTool, ExtractTool>> }

\* Convert MCP tools to OpenAI function calling format
ToOpenAITool(tool) ==
    [type |-> "function",
     function |-> [name |-> tool.name,
                   description |-> tool.description,
                   parameters |-> tool.inputSchema]]

ToSchema(tools) == [k \in 1..Len(tools) |-> ToOpenAITool(tools[k])]

\* the argument strings on which json.loads raises JSONDecodeError
Malformed(s) == s \notin { "{\"topic\": \"X\"}", "{\"paper_id\": \"1\"}" }

\* json.loads on the argument strings it accepts
json_loads(s) ==
    CASE s = "{\"topic\": \"X\"}" -> [topic |-> "X"]
      [] s = "{\"paper_id\": \"1\"}" -> [paper_id |-> "1"]

\* tool_call.function of the tool calls the backend may emit
FunctionPayloads ==
    { [name |-> "search_papers", arguments |-> "{\"topic\": \"X\"}"],
      [name |-> "extract_info", arguments |-> "{\"paper_id\": "] }

\* message.content of a model response
Contents == { None, "answer" }

\* Python truthiness of message.content
Truthy(c) == c # None /\ c # ""

\* Content items of a provider result: an object with a text attribute, a
\* dict with a "text" key, an object without text, a dict without that key.
TextItem(t) == [kind |-> "attr", text |-> t]
DictItem(t) == [kind |-> "dict", text |-> t]
ImageItem == [kind |-> "image"]
PlainDict == [kind |-> "dict"]

\* result.content of the provider results of the model
ProviderContents ==
    { [list |-> TRUE, items |-> <<TextItem("a"), ImageItem, DictItem("b")>>],
      [list |-> TRUE, items |-> <<ImageItem>>],
      [list |-> FALSE, value |-> None] }

\* the content items of the provider results of the normalisation runs
Items == { TextItem("a"), TextItem("b"), DictItem("c"), ImageItem, PlainDict }

\* result.content of every provider result of at most MaxItems items, and
\* two results that are no list
ResultContents ==
    { [list |-> TRUE, items |-> s] :
        s \in UNION { [1..n -> Items] : n \in 0..MaxItems } }
    \cup { [list |-> FALSE, value |-> v] : v \in {None, "text"} }

\* str(result.content)
Str(v) == IF v = None THEN "None" ELSE v

\* The texts are joined with a blank after each of them.
RECURSIVE ConcatText_Separator(_)
ConcatText_Separator(items) ==
    IF items = <<>> THEN ""
    ELSE LET item == Head(items)
         IN  (IF item.kind = "attr" THEN item.text \o " "
              ELSE IF item.kind = "dict" /\ "text" \in DOMAIN item
                   THEN item.text \o " "
              ELSE "") \o ConcatText_Separator(Tail(items))

\* for item in result.content: the text of the items that have one is
\* added to tool_result_content
RECURSIVE ConcatText(_)
ConcatText(items) ==
    IF items = <<>> THEN ""
    ELSE LET item == Head(items)
         IN  (IF item.kind = "attr" THEN item.text
              ELSE IF item.kind = "dict" /\ "text" \in DOMAIN item
                   THEN item.text
              ELSE "") \o ConcatText(Tail(items))

\* Extract text content from MCP result
Normalize(content) ==
    IF content.list THEN ConcatText(content.items) ELSE Str(content.value)

----------------------------------------------------------------------------
\* Turns of the conversation

UserTurn(q) == [role |-> "user", content |-> q]

AssistantTurn(m) ==
    [role |-> "assistant", content |-> m.content, tool_calls |-> m.tool_calls]

ToolTurn(tool_call, text) ==
    [role |-> "tool", tool_call_id |-> tool_call.id, content |-> text]

\* A model call that passes no tool schema.
ModelRequest_NoTools(msgs) ==
    [model |-> "gpt-4o", tools |-> <<>>, messages |-> msgs]

\* A model call that passes the latest turn only.
ModelRequest_LastOnly(msgs) ==
    [model |-> "gpt-4o", tools |-> available_tools,
     messages |-> <<Last(msgs)>>]

\* the arguments of client.chat.completions.create
ModelRequest(msgs) ==
    [model |-> "gpt-4o", tools |-> available_tools, messages |-> msgs]

NoResponse == [content |-> None, tool_calls |-> <<>>]
NoRequest == [model |-> "gpt-4o", tools |-> <<>>, messages |-> <<>>]
NoOutput == [kind |-> "none"]
NoResult == [list |-> FALSE, value |-> None]
NoReply == [op |-> "none"]

\* the store before the provider has created PAPER_DIR
NoStore == [dir |-> FALSE]

----------------------------------------------------------------------------
\* The model backend

\* tool requests emitted so far in the conversation
Issued == SumSeq(history)

\* The tool-call lists of n calls; identifiers are fresh in the conversation.
ToolCallLists(n) ==
    { [k \in 1..n |-> [id |-> Issued + k, function |-> f[k]]] :
        f \in [1..n -> FunctionPayloads] }

Responses ==
    UNION { { [content |-> c, tool_calls |-> tcs] :
                c \in Contents, tcs \in ToolCallLists(n) } :
            n \in 0..(MaxRequests - Issued) }

----------------------------------------------------------------------------
ClientInit ==
    /\ pc = "start"
    /\ line = <<>>
    /\ transportOpen = FALSE
    /\ sessionOpen = FALSE
    /\ available_tools = <<>>
    /\ query = <<>>
    /\ messages = <<>>
    /\ response = NoResponse
    /\ request = NoRequest
    /\ i = 0
    /\ result = NoResult
    /\ invoked = <<>>
    /\ history = <<>>
    /\ modelCalls = 0
    /\ stdout = NoOutput
    /\ fault = "none"

Init ==
    /\ ClientInit
    /\ store = NoStore
    /\ reply = NoReply

----------------------------------------------------------------------------
\* connect_to_server_and_run

\* async with stdio_client(...) / async with ClientSession(...): both
\* contexts entered, self.session set, session.initialize() issued
Connect ==
    /\ pc = "start"
    /\ transportOpen' = TRUE
    /\ sessionOpen' = TRUE
    /\ pc' = "initializing"
    /\ UNCHANGED <<serverVars, available_tools, queryVars, stdout, fault>>

\* An exception that propagates without the context managers exiting.
Unwind_Leaks ==
    /\ pc' = "raised"
    /\ UNCHANGED <<sessionOpen, transportOpen>>

\* An exception leaves the two async with blocks: both contexts exit and
\* the exception propagates out of connect_to_server_and_run.
Unwind ==
    /\ sessionOpen' = FALSE
    /\ transportOpen' = FALSE
    /\ pc' = "raised"

\* stdio_client cannot start the provider
ConnectFails ==
    /\ pc = "start"
    /\ Unwind
    /\ UNCHANGED <<serverVars, available_tools, queryVars, stdout, fault>>

\* await session.initialize() returns; session.list_tools() issued
Initialize ==
    /\ pc = "initializing"
    /\ pc' = "listing"
    /\ UNCHANGED <<serverVars, connVars, queryVars, stdout, fault>>

InitializeFails ==
    /\ pc = "initializing"
    /\ Unwind
    /\ UNCHANGED <<serverVars, available_tools, queryVars, stdout, fault>>

\* session.list_tools() returns: the tools are converted and chat_loop starts
ListTools ==
    /\ pc = "listing"
    /\ \E tools \in ProviderToolLists :
         available_tools' = ToSchema(tools)
    /\ pc' = "prompt"
    /\ UNCHANGED <<serverVars, transportOpen, sessionOpen, queryVars, stdout, fault>>

ListToolsFails ==
    /\ pc = "listing"
    /\ Unwind
    /\ UNCHANGED <<serverVars, available_tools, queryVars, stdout, fault>>

----------------------------------------------------------------------------
\* chat_loop

\* A handler that lets the exception leave chat_loop: the async with blocks
\* exit and connect_to_server_and_run raises.
ChatLoopExcept_Fatal(e) ==
    /\ stdout' = [kind |-> "error", text |-> e]
    /\ sessionOpen' = FALSE
    /\ transportOpen' = FALSE
    /\ pc' = "raised"

\* except Exception as e: print(f"\nError: {str(e)}"), and the while loop
\* goes back to input()
ChatLoopExcept(e) ==
    /\ stdout' = [kind |-> "error", text |-> e]
    /\ pc' = "prompt"
    /\ UNCHANGED <<transportOpen, sessionOpen>>

\* chat_loop ends: nothing of the last process_query remains
DropConversation ==
    /\ messages' = <<>>
    /\ response' = NoResponse
    /\ request' = NoRequest
    /\ i' = 0
    /\ result' = NoResult
    /\ invoked' = <<>>
    /\ history' = <<>>
    /\ modelCalls' = 0

\* input() returns a line that, stripped, is quit in some letter case:
\* break, chat_loop returns and the two async with blocks exit
Quit ==
    /\ pc = "prompt"
    /\ \E inp \in Inputs :
         /\ IsQuit(Strip(inp))
         /\ line' = inp
         /\ query' = Strip(inp)
    /\ sessionOpen' = FALSE
    /\ transportOpen' = FALSE
    /\ pc' = "returned"
    /\ fault' = "none"
    /\ DropConversation
    /\ UNCHANGED <<serverVars, available_tools, stdout>>

\* input() raises (end of input): chat_loop catches the exception and asks
\* again
InputFails ==
    /\ pc = "prompt"
    /\ fault' = "input"
    /\ ChatLoopExcept("input")
    /\ UNCHANGED <<serverVars, available_tools, queryVars>>

\* input() is interrupted (KeyboardInterrupt is no Exception): the handler
\* of chat_loop does not apply, the two async with blocks exit and the
\* interrupt leaves connect_to_server_and_run
Interrupt ==
    /\ pc = "prompt"
    /\ fault' = "interrupt"
    /\ Unwind
    /\ DropConversation
    /\ UNCHANGED <<serverVars, available_tools, line, query, stdout>>

\* A conversation kept across queries: the new query is appended to it.
NewConversation_KeepsHistory(q) == Append(messages, UserTurn(q))

\* messages = [{"role": "user", "content": query}]
NewConversation(q) == <<UserTurn(q)>>

\* input() returns another line: process_query(query) starts, builds the
\* conversation and issues the first model call
StartQuery ==
    /\ pc = "prompt"
    /\ \E inp \in Inputs :
         /\ ~IsQuit(Strip(inp))
         /\ line' = inp
         /\ query' = Strip(inp)
         /\ messages' = NewConversation(Strip(inp))
         /\ request' = ModelRequest(NewConversation(Strip(inp)))
    /\ response' = NoResponse
    /\ i' = 0
    /\ result' = NoResult
    /\ invoked' = <<>>
    /\ history' = <<>>
    /\ modelCalls' = 1
    /\ stdout' = NoOutput
    /\ fault' = "none"
    /\ pc' = "model_call"
    /\ UNCHANGED <<serverVars, connVars>>

----------------------------------------------------------------------------
\* process_query

\* client.chat.completions.create returns
ModelResponds ==
    /\ pc = "model_call"
    /\ \E r \in Responses :
         /\ response' = r
         /\ history' = Append(history, Len(r.tool_calls))
    /\ pc' = "inspect"
    /\ UNCHANGED <<serverVars, connVars, line, query, messages, request, i, result, invoked,
                   modelCalls, stdout, fault>>

\* client.chat.completions.create raises; chat_loop catches the exception
ModelFails ==
    /\ pc = "model_call"
    /\ fault' = "model"
    /\ ChatLoopExcept("model")
    /\ UNCHANGED <<serverVars, available_tools, queryVars>>

\* The tool calls are processed without the assistant message appended.
BeginRound_NoAssistant ==
    /\ pc = "inspect"
    /\ response.tool_calls # <<>>
    /\ i' = 1
    /\ pc' = "tool_loop"
    /\ UNCHANGED <<serverVars, connVars, line, query, messages, response, request, result, invoked,
                   history, modelCalls, stdout, fault>>

\* A loop with a cap of two model calls: the tool calls of a later response
\* are dropped and the query ends.
BeginRound_Capped ==
    /\ pc = "inspect"
    /\ response.tool_calls # <<>>
    /\ IF Len(history) < 2
       THEN /\ messages' = Append(messages, AssistantTurn(response))
            /\ i' = 1
            /\ pc' = "tool_loop"
       ELSE /\ pc' = "done"
            /\ UNCHANGED <<messages, i>>
    /\ UNCHANGED <<serverVars, connVars, line, query, response, request, result, invoked, history,
                   modelCalls, stdout, fault>>

\* if message.tool_calls: the assistant message is appended and the for
\* loop starts
BeginRound ==
    /\ pc = "inspect"
    /\ response.tool_calls # <<>>
    /\ messages' = Append(messages, AssistantTurn(response))
    /\ i' = 1
    /\ pc' = "tool_loop"
    /\ UNCHANGED <<serverVars, connVars, line, query, response, request, result, invoked, history,
                   modelCalls, stdout, fault>>

\* The final response is also appended to the conversation.
FinalAnswer_Appends ==
    /\ pc = "inspect"
    /\ response.tool_calls = <<>>
    /\ stdout' = IF Truthy(response.content)
                 THEN [kind |-> "answer", text |-> response.content]
                 ELSE stdout
    /\ messages' = Append(messages, AssistantTurn(response))
    /\ pc' = "done"
    /\ UNCHANGED <<serverVars, connVars, line, query, response, request, i, result, invoked, history,
                   modelCalls, fault>>

\* The model is called once more after the final response.
FinalAnswer_CallsAgain ==
    /\ pc = "inspect"
    /\ response.tool_calls = <<>>
    /\ stdout' = IF Truthy(response.content)
                 THEN [kind |-> "answer", text |-> response.content]
                 ELSE stdout
    /\ modelCalls < MaxRequests + 1
    /\ request' = ModelRequest(messages)
    /\ modelCalls' = modelCalls + 1
    /\ pc' = "model_call"
    /\ UNCHANGED <<serverVars, connVars, line, query, messages, response, i, result, invoked, history,
                   fault>>

\* else: print the final response and leave the while loop
FinalAnswer ==
    /\ pc = "inspect"
    /\ response.tool_calls = <<>>
    /\ stdout' = IF Truthy(response.content)
                 THEN [kind |-> "answer", text |-> response.content]
                 ELSE stdout
    /\ pc' = "done"
    /\ UNCHANGED <<serverVars, connVars, queryVars, fault>>

\* process_query returns, chat_loop prints a newline and loops
Return ==
    /\ pc = "done"
    /\ pc' = "prompt"
    /\ UNCHANGED <<serverVars, connVars, queryVars, stdout, fault>>

\* The tool calls are taken from the end of the list.
NextToolCall_Reversed ==
    response.tool_calls[Len(response.tool_calls) + 1 - i]

\* for tool_call in message.tool_calls: the call of this iteration
NextToolCall == response.tool_calls[i]

\* The next model call is issued inside the for loop.
RoundComplete_Early == TRUE

\* the for loop has no further tool call
RoundComplete == i = Len(response.tool_calls)

\* session.call_tool is issued without awaiting its result: the for loop
\* goes on to the next tool call while the call is outstanding.
Dispatch_NoAwait ==
    /\ pc = "tool_loop"
    /\ ~Malformed(NextToolCall.function.arguments)
    /\ invoked' = Append(invoked,
                         [id |-> NextToolCall.id,
                          name |-> NextToolCall.function.name,
                          arguments |->
                              json_loads(NextToolCall.function.arguments)])
    /\ IF RoundComplete
       THEN pc' = "tool_call" /\ i' = i
       ELSE pc' = "tool_loop" /\ i' = i + 1
    /\ UNCHANGED <<serverVars, connVars, line, query, messages, response, request, result, history,
                   modelCalls, stdout, fault>>

\* json.loads succeeds and session.call_tool is issued
Dispatch ==
    /\ pc = "tool_loop"
    /\ ~Malformed(NextToolCall.function.arguments)
    /\ invoked' = Append(invoked,
                         [id |-> NextToolCall.id,
                          name |-> NextToolCall.function.name,
                          arguments |->
                              json_loads(NextToolCall.function.arguments)])
    /\ pc' = "tool_call"
    /\ UNCHANGED <<serverVars, connVars, line, query, messages, response, request, i, result, history,
                   modelCalls, stdout, fault>>

\* A tool message is appended only for a non-empty text.
WithToolResult_SkipEmpty(msgs, tool_call, text) ==
    IF text = "" THEN msgs ELSE Append(msgs, ToolTurn(tool_call, text))

\* Add tool result to messages
WithToolResult(msgs, tool_call, text) ==
    Append(msgs, ToolTurn(tool_call, text))

\* The tool message of this iteration is appended; the for loop goes to its
\* next tool call or, after the last one, the next model call is issued.
AppendResult(text) ==
    LET msgs == WithToolResult(messages, NextToolCall, text)
    IN  /\ messages' = msgs
        /\ IF RoundComplete
           THEN /\ request' = ModelRequest(msgs)
                /\ modelCalls' = modelCalls + 1
                /\ pc' = "model_call"
                /\ i' = i
           ELSE /\ i' = i + 1
                /\ pc' = "tool_loop"
                /\ UNCHANGED <<request, modelCalls>>

\* The decoding error is turned into the tool message of the request.
ArgsMalformed_Caught ==
    /\ pc = "tool_loop"
    /\ Malformed(NextToolCall.function.arguments)
    /\ fault' = "args"
    /\ AppendResult("Error: JSONDecodeError")
    /\ UNCHANGED <<serverVars, connVars, line, query, response, result, invoked, history, stdout>>

\* json.loads raises on the argument string; chat_loop catches the
\* exception
ArgsMalformed ==
    /\ pc = "tool_loop"
    /\ Malformed(NextToolCall.function.arguments)
    /\ fault' = "args"
    /\ ChatLoopExcept("args")
    /\ UNCHANGED <<serverVars, available_tools, queryVars>>

\* session.call_tool returns: the text is extracted and the tool message
\* appended
ToolReturnsWith(contents) ==
    /\ pc = "tool_call"
    /\ \E content \in contents :
         /\ result' = content
         /\ AppendResult(Normalize(content))
    /\ UNCHANGED <<serverVars, connVars, line, query, response, invoked, history, stdout,
                   fault>>

ToolReturns == ToolReturnsWith(ProviderContents)

\* The error of the call is turned into the tool message of the request.
ToolRaises_Caught ==
    /\ pc = "tool_call"
    /\ fault' = "call_tool"
    /\ AppendResult("Error: call_tool")
    /\ UNCHANGED <<serverVars, connVars, line, query, response, result, invoked, history, stdout>>

\* session.call_tool raises; chat_loop catches the exception
ToolRaises ==
    /\ pc = "tool_call"
    /\ fault' = "call_tool"
    /\ ChatLoopExcept("call_tool")
    /\ UNCHANGED <<serverVars, available_tools, queryVars>>

----------------------------------------------------------------------------
Next ==
    \/ Connect
    \/ ConnectFails
    \/ Initialize
    \/ InitializeFails
    \/ ListTools
    \/ ListToolsFails
    \/ Quit
    \/ InputFails
    \/ Interrupt
    \/ StartQuery
    \/ ModelResponds
    \/ ModelFails
    \/ BeginRound
    \/ FinalAnswer
    \/ Return
    \/ Dispatch
    \/ ArgsMalformed
    \/ ToolReturns
    \/ ToolRaises

Spec == Init /\ [][Next]_vars

----------------------------------------------------------------------------
\* Auxiliary definitions of the properties

IsPrefix(a, b) == Len(a) <= Len(b) /\ SubSeq(b, 1, Len(a)) = a

\* the identifiers of the tool requests of the assistant turns, in order
RECURSIVE RequestIds(_)
RequestIds(msgs) ==
    IF msgs = <<>> THEN <<>>
    ELSE (IF Head(msgs).role = "assistant"
          THEN [n \in 1..Len(Head(msgs).tool_calls) |->
                    Head(msgs).tool_calls[n].id]
          ELSE <<>>) \o RequestIds(Tail(msgs))

\* the identifiers carried by the tool turns, in order
RECURSIVE ResultIds(_)
ResultIds(msgs) ==
    IF msgs = <<>> THEN <<>>
    ELSE (IF Head(msgs).role = "tool"
          THEN <<Head(msgs).tool_call_id>>
          ELSE <<>>) \o ResultIds(Tail(msgs))

InvokedIds == [n \in 1..Len(invoked) |-> invoked[n].id]

\* the positions <<j, n>> of the tool requests of a conversation
RequestsOf(msgs) ==
    { <<j, n>> \in (1..Len(msgs)) \X (1..MaxRequests + 1) :
        /\ msgs[j].role = "assistant"
        /\ n <= Len(msgs[j].tool_calls) }

\* the positions of the tool turns of a conversation
ToolTurnsOf(msgs) == { k \in 1..Len(msgs) : msgs[k].role = "tool" }

\* the number of tool turns that directly follow position j
ResultRun(msgs, j) ==
    CHOOSE n \in 0..(Len(msgs) - j) :
        /\ \A m \in 1..n : msgs[j + m].role = "tool"
        /\ (j + n < Len(msgs) => msgs[j + n + 1].role # "tool")

\* process_query is running (or has just reached Done)
InQuery == pc \in {"model_call", "inspect", "tool_loop", "tool_call", "done"}

----------------------------------------------------------------------------
\* C1: every tool turn of the conversation carries the identifier of a tool
\* request of an assistant turn that stands earlier in the conversation.
C1_ResultHasEarlierRequest ==
    \A k \in ToolTurnsOf(messages) :
        \E r \in RequestsOf(messages) :
            /\ r[1] < k
            /\ messages[r[1]].tool_calls[r[2]].id = messages[k].tool_call_id

\* a tool result of a second round is in the conversation
C1_Witness ==
    /\ pc = "tool_loop"
    /\ Len(history) = 2
    /\ i = 2
    /\ messages[Len(messages)].role = "tool"

\* C2: in a round the tool requests are invoked in the order the model
\* emitted them, and the tool turns are appended in that order right after
\* the assistant turn, each with the identifier of its own request.
C2_RoundInOrder ==
    InQuery =>
        /\ \A j \in 1..Len(messages) :
              messages[j].role = "assistant" =>
                  LET run == ResultRun(messages, j)
                  IN  /\ run <= Len(messages[j].tool_calls)
                      /\ \A m \in 1..run :
                            messages[j + m].tool_call_id =
                                messages[j].tool_calls[m].id
        /\ IsPrefix(InvokedIds, RequestIds(messages))
        /\ IsPrefix(ResultIds(messages), InvokedIds)
        /\ Len(InvokedIds) - Len(ResultIds(messages)) =
               (IF pc = "tool_call" THEN 1 ELSE 0)

\* a round of three tool requests has been processed completely
C2_Witness ==
    /\ pc = "model_call"
    /\ history = <<3>>
    /\ Len(messages) = 5
    /\ Len(invoked) = 3

\* C3: at every model call but the first, the conversation passed to the
\* model holds a tool turn for each tool request of each assistant turn.
C3_ResultsBeforeModelCall ==
    (pc = "model_call" /\ modelCalls > 1) =>
        /\ request.messages = messages
        /\ \A r \in RequestsOf(request.messages) :
              \E k \in ToolTurnsOf(request.messages) :
                  /\ r[1] < k
                  /\ request.messages[k].tool_call_id =
                         request.messages[r[1]].tool_calls[r[2]].id

\* the third model call of a query, after a round of two requests
C3_Witness ==
    /\ pc = "model_call"
    /\ modelCalls = 3
    /\ history = <<2, 1>>

\* C4: at Done tool requests and tool turns correspond one to one by
\* identifier: each tool turn has exactly one request, which stands earlier,
\* and each request has exactly one tool turn.
C4_OneToOneAtDone ==
    pc = "done" =>
        /\ \A k \in ToolTurnsOf(messages) :
              Cardinality({ r \in RequestsOf(messages) :
                  /\ r[1] < k
                  /\ messages[r[1]].tool_calls[r[2]].id =
                         messages[k].tool_call_id }) = 1
        /\ \A r \in RequestsOf(messages) :
              Cardinality({ k \in ToolTurnsOf(messages) :
                  messages[k].tool_call_id =
                      messages[r[1]].tool_calls[r[2]].id }) = 1

\* Done after two rounds with three tool requests
C4_Witness ==
    /\ pc = "done"
    /\ history = <<2, 1, 0>>
    /\ Len(messages) = 6

\* the tool request on which the latest exception of the query was raised
FaultedCall == response.tool_calls[i]

\* the conversation holds a tool turn for the faulted tool request
FaultedCallHasResult ==
    \E k \in ToolTurnsOf(messages) : messages[k].tool_call_id = FaultedCall.id

\* chat_loop has caught the exception of the query and is back at input()
\* (or has since read quit)
BackAtPrompt == pc \in {"prompt", "returned"}

\* one tool request in round 1, a tool-call-free response in round 2
ChainingRun == pc = "done" /\ history = <<1, 0>>

\* C5 as stated: for a backend that requests one tool call in round 1 and
\* answers in round 2, the conversation at Done is User, Assistant (with the
\* request), ToolResult, Assistant (final answer).
C5_FourTurnsAtDone ==
    ChainingRun =>
        /\ Len(messages) = 4
        /\ messages[1].role = "user"
        /\ messages[2].role = "assistant"
        /\ messages[3].role = "tool"
        /\ messages[4].role = "assistant"
        /\ messages[4].content = response.content

\* C5 amended: for such a backend the conversation at Done is User,
\* Assistant (with the request), ToolResult of that request; the final
\* response is printed when it has text and is not appended.
C5_ThreeTurnsAtDone ==
    ChainingRun =>
        /\ Len(messages) = 3
        /\ messages[1] = UserTurn(query)
        /\ messages[2].role = "assistant"
        /\ Len(messages[2].tool_calls) = 1
        /\ messages[3].role = "tool"
        /\ messages[3].tool_call_id = messages[2].tool_calls[1].id
        /\ (Truthy(response.content) =>
                stdout = [kind |-> "answer", text |-> response.content])
        /\ (~Truthy(response.content) => stdout = NoOutput)

\* Done after one tool round, the final answer printed
C5_Witness == ChainingRun /\ stdout.kind = "answer"

\* C6: while every response of the query is tool-call-free, the query makes
\* one model call and no tool invocation, the response leads to Done and
\* nowhere else, and Done is left only by returning to the prompt.
C6_OneCallWithoutTools ==
    (InQuery /\ \A n \in 1..Len(history) : history[n] = 0) =>
        /\ modelCalls = 1
        /\ invoked = <<>>
        /\ Len(history) <= 1
        /\ messages = <<UserTurn(query)>>
        /\ pc \in {"model_call", "inspect", "done"}
        /\ (pc = "inspect" => ENABLED FinalAnswer /\ ~ENABLED BeginRound)
        /\ (pc = "done" => Len(history) = 1)

\* Done after a single tool-call-free response
C6_Witness ==
    /\ pc = "done"
    /\ history = <<0>>
    /\ modelCalls = 1
    /\ stdout.kind = "answer"

\* C7 as stated: when session.call_tool raises, the conversation gains a
\* tool turn with the identifier of that request and the query goes on.
C7_ToolErrorBecomesResult ==
    fault = "call_tool" =>
        /\ FaultedCallHasResult
        /\ pc \in {"tool_loop", "tool_call", "model_call", "inspect", "done"}

\* C7 amended: when session.call_tool raises, the query is aborted: no tool
\* turn is appended for that request, the later requests of the round are
\* not invoked, no further model call is issued, chat_loop prints the error
\* and is back at the prompt.
C7_ToolErrorAbortsQuery ==
    fault = "call_tool" =>
        /\ BackAtPrompt
        /\ stdout = [kind |-> "error", text |-> "call_tool"]
        /\ ~FaultedCallHasResult
        /\ Last(invoked).id = FaultedCall.id
        /\ ResultIds(messages) = SubSeq(InvokedIds, 1, Len(invoked) - 1)
        /\ modelCalls = Len(history)
        /\ request.messages # messages

\* call_tool raised on the first of several requests of a round
C7_Witness ==
    /\ fault = "call_tool"
    /\ pc = "prompt"
    /\ i = 1
    /\ Len(response.tool_calls) > 1

\* C8 as stated: when the argument string of a tool request is malformed,
\* no exception leaves the round and the conversation gains a tool turn with
\* the identifier of that request.
C8_BadArgsBecomeResult ==
    fault = "args" =>
        /\ FaultedCallHasResult
        /\ stdout.kind # "error"

\* C8 amended: when the argument string of a tool request is malformed,
\* json.loads raises out of process_query: the request is not invoked, no
\* tool turn is appended for it, chat_loop prints the error and is back at
\* the prompt.
C8_BadArgsAbortQuery ==
    fault = "args" =>
        /\ BackAtPrompt
        /\ stdout = [kind |-> "error", text |-> "args"]
        /\ Malformed(FaultedCall.function.arguments)
        /\ ~FaultedCallHasResult
        /\ \A n \in 1..Len(invoked) : invoked[n].id # FaultedCall.id
        /\ ResultIds(messages) = InvokedIds
        /\ modelCalls = Len(history)

\* malformed arguments on the second request of a round, the first one
\* already answered
C8_Witness ==
    /\ fault = "args"
    /\ pc = "prompt"
    /\ i = 2
    /\ Len(invoked) = 1

\* C9: a failed model call, first or later, is caught by chat_loop: the
\* error is printed, the session stays open and chat_loop is at the prompt;
\* the query read next starts from a conversation that holds its own user
\* turn and nothing else.
C9_ModelFailureStaysInQuery ==
    [][ /\ (fault' = "model" /\ fault # "model") =>
              /\ pc = "model_call"
              /\ pc' = "prompt"
              /\ stdout' = [kind |-> "error", text |-> "model"]
              /\ sessionOpen' /\ transportOpen'
        /\ (fault = "model" /\ pc = "prompt") => ENABLED StartQuery
        /\ (fault = "model" /\ pc' = "model_call") =>
              /\ messages' = <<UserTurn(query')>>
              /\ request'.messages = messages'
              /\ history' = <<>>
              /\ fault' = "none" ]_vars

\* the model call after a tool round failed and chat_loop is at the prompt
C9_Witness ==
    /\ fault = "model"
    /\ pc = "prompt"
    /\ modelCalls = 2
    /\ Len(messages) = 3

Exited == pc \in {"returned", "raised"}

\* C11: on every exit path of connect_to_server_and_run (a failure while
\* connecting, during initialize or during list_tools, quit, an interrupt
\* that escapes chat_loop) the session and its transport are closed; the
\* session is never open without its transport, and both stay open as long
\* as chat_loop runs.
C11_ClosedOnEveryExit ==
    /\ Exited => (~sessionOpen /\ ~transportOpen)
    /\ sessionOpen => transportOpen
    /\ (pc \notin {"start", "returned", "raised"}) =>
           (sessionOpen /\ transportOpen)

\* an interrupt has escaped chat_loop after a query with a tool round
C11_Witness ==
    /\ pc = "raised"
    /\ fault = "interrupt"
    /\ stdout.kind = "answer"
    /\ ~sessionOpen

----------------------------------------------------------------------------
\* The normalisation of provider results: process_query in a round of one
\* tool request, the provider answering with any result of ResultContents.

RoundInit ==
    /\ pc = "tool_loop"
    /\ line \in { inp \in Inputs : ~IsQuit(Strip(inp)) }
    /\ transportOpen = TRUE
    /\ sessionOpen = TRUE
    /\ available_tools = ToSchema(<<SearchTool, ExtractTool>>)
    /\ query = Strip(line)
    /\ \E c \in Contents :
         response =
             [content |-> c,
              tool_calls |->
                  << [id |-> 1,
                      function |-> [name |-> "search_papers",
                                    arguments |-> "{\"topic\": \"X\"}"]] >>]
    /\ messages = <<UserTurn(query), AssistantTurn(response)>>
    /\ request = [model |-> "gpt-4o", tools |-> available_tools,
                  messages |-> <<UserTurn(query)>>]
    /\ i = 1
    /\ result = NoResult
    /\ invoked = <<>>
    /\ history = <<1>>
    /\ modelCalls = 1
    /\ stdout = NoOutput
    /\ fault = "none"
    /\ store = NoStore
    /\ reply = NoReply

ToolReturnsAny == ToolReturnsWith(ResultContents)

RoundNext ==
    \/ Dispatch
    \/ ToolReturnsAny

NormalizeSpec == RoundInit /\ [][RoundNext]_vars

\* the item exposes text: an attribute text or a key "text"
HasText(item) == "text" \in DOMAIN item

\* the texts of the items that expose text, in order
TextsOf(items) ==
    LET withText == SelectSeq(items, HasText)
    IN  [n \in 1..Len(withText) |-> withText[n].text]

\* the strings of a sequence one after the other
RECURSIVE Joined(_)
Joined(texts) ==
    IF texts = <<>> THEN ""
    ELSE Joined(SubSeq(texts, 1, Len(texts) - 1)) \o Last(texts)

\* C12: when call_tool returns a list of content items, the tool turn
\* appended for the request carries the texts of exactly the items that
\* expose text, joined in their order with nothing between them: as many
\* characters as those texts have together, and the empty string when no
\* item exposes text.
C12_ListResultIsConcatenation ==
    [][ (pc = "tool_call" /\ pc' \in {"tool_loop", "model_call"}
         /\ result'.list) =>
            LET texts == TextsOf(result'.items)
                text == Last(messages').content
            IN  /\ messages' =
                       Append(messages,
                              [role |-> "tool",
                               tool_call_id |-> response.tool_calls[i].id,
                               content |-> Joined(texts)])
                /\ Len(text) = SumSeq([n \in 1..Len(texts) |-> Len(texts[n])])
                /\ (texts = <<>> => text = "") ]_vars

\* a result of three items, the second without text, has been normalised
C12_Witness ==
    /\ pc = "model_call"
    /\ result = [list |-> TRUE,
                 items |-> <<TextItem("a"), ImageItem, DictItem("c")>>]
    /\ Last(messages).content = "ac"

----------------------------------------------------------------------------
\* the numbers of tool requests of the assistant turns, in order
RECURSIVE AssistantSizes(_)
AssistantSizes(msgs) ==
    IF msgs = <<>> THEN <<>>
    ELSE (IF Head(msgs).role = "assistant"
          THEN <<Len(Head(msgs).tool_calls)>>
          ELSE <<>>) \o AssistantSizes(Tail(msgs))

\* the positions of the user turns of a conversation
UserTurnsOf(msgs) == { k \in 1..Len(msgs) : msgs[k].role = "user" }

\* C13: process_query starts, after Done and after an error alike, with a
\* conversation of exactly one turn, the user turn of its own query, and
\* passes it to the first model call; while the query runs the conversation
\* holds that user turn first, no other user turn, and besides it only the
\* assistant turns of the responses of this query and the tool turns of
\* their requests.
C13_FreshConversation ==
    /\ [][ (pc = "prompt" /\ pc' = "model_call") =>
               /\ query' = Strip(line')
               /\ messages' = <<UserTurn(query')>>
               /\ request'.messages = messages'
               /\ modelCalls' = 1
               /\ invoked' = <<>> ]_vars
    /\ [](InQuery =>
             /\ messages[1] = UserTurn(query)
             /\ UserTurnsOf(messages) = {1}
             /\ IsPrefix(AssistantSizes(messages), history)
             /\ IsPrefix(ResultIds(messages), RequestIds(messages))
             /\ Len(messages) = 1 + Len(AssistantSizes(messages))
                                  + Len(ResultIds(messages)))

\* chat_loop is at the prompt with the five turns of a query that failed in
\* its second round still bound; the next query starts from here
C13_Witness ==
    /\ pc = "prompt"
    /\ fault = "model"
    /\ Len(messages) = 5
    /\ Len(history) = 2
    /\ ENABLED StartQuery

----------------------------------------------------------------------------
\* C14: list_tools is called once, after initialize and before chat_loop;
\* available_tools is assigned when it returns and by no other step, is
\* empty until then, and every model call of every query passes it as the
\* tool schema.
C14_ToolsDiscoveredOnce ==
    /\ [][ /\ (pc' = "listing" => pc = "initializing")
           /\ (pc' = "initializing" => pc = "start")
           /\ pc' # "start"
           /\ (available_tools' # available_tools =>
                   (pc = "listing" /\ pc' = "prompt"))
           /\ (pc' = "model_call" =>
                   request'.tools = available_tools') ]_vars
    /\ [](pc \in {"start", "initializing", "listing"} =>
             (available_tools = <<>> /\ modelCalls = 0))
    /\ [](pc = "model_call" => request.tools = available_tools)

\* the second model call of a query, with the two tools of the provider
C14_Witness ==
    /\ pc = "model_call"
    /\ modelCalls = 2
    /\ Len(available_tools) = 2
    /\ request.tools = ToSchema(<<SearchTool, ExtractTool>>)

----------------------------------------------------------------------------
\* C15: every step of process_query leaves the turns of the conversation in
\* place and appends at most one turn at its end, and each model call is
\* issued with the whole conversation, which does not change while the call
\* is outstanding.
C15_AppendOnlyAndFullInput ==
    /\ [][ /\ InQuery =>
                 /\ IsPrefix(messages, messages')
                 /\ Len(messages') <= Len(messages) + 1
           /\ pc' = "model_call" => request'.messages = messages' ]_vars
    /\ [](pc = "model_call" =>
             /\ request.messages = messages
             /\ Len(messages) = 1 + Len(history) + Len(ResultIds(messages)))

\* the model call after a round of three tool requests receives five turns
C15_Witness ==
    /\ pc = "model_call"
    /\ modelCalls = 2
    /\ Len(request.messages) = 5
    /\ request.messages[5].role = "tool"

----------------------------------------------------------------------------
\* model calls issued by the query and not yet answered
OutstandingModelCalls == modelCalls - Len(history)

\* tool invocations issued by the query and not yet answered
OutstandingToolCalls == Len(invoked) - Len(ResultIds(messages))

\* C16: while a query runs, the model calls and tool invocations it has
\* issued and not got back number at most one together: one model call
\* exactly while the coroutine waits for the model, one invocation exactly
\* while it waits for call_tool.  A line is read, and a query started, only
\* at the prompt, and the prompt is reached only from list_tools, from Done
\* or by an exception of the running query, so a query starts only after
\* the previous one has ended.
C16_OneCallNoInterleaving ==
    /\ [](InQuery =>
             /\ OutstandingModelCalls = (IF pc = "model_call" THEN 1 ELSE 0)
             /\ OutstandingToolCalls = (IF pc = "tool_call" THEN 1 ELSE 0)
             /\ OutstandingModelCalls + OutstandingToolCalls <= 1)
    /\ [][ /\ (line' # line \/ query' # query) => pc = "prompt"
           /\ (modelCalls' = 1 /\ modelCalls # 1) => pc = "prompt"
           /\ (pc' = "prompt" /\ pc # "prompt") =>
                 \/ pc = "listing"
                 \/ pc = "done"
                 \/ /\ pc \in {"model_call", "tool_loop", "tool_call"}
                    /\ fault' # "none"
           /\ (pc' = "done") => (pc = "inspect" /\ response.tool_calls = <<>>)
           /\ Len(invoked') > Len(invoked) =>
                 (pc = "tool_loop" /\ pc' = "tool_call"
                  /\ messages' = messages) ]_vars

\* the second of three tool invocations of a round is outstanding
C16_Witness ==
    /\ pc = "tool_call"
    /\ i = 2
    /\ Len(response.tool_calls) = 3
    /\ Len(invoked) = 2
    /\ Len(ResultIds(messages)) = 1

----------------------------------------------------------------------------
\* the letters accepted at the four positions of the word quit
QuitLetters == << {"q", "Q"}, {"u", "U"}, {"i", "I"}, {"t", "T"} >>

\* the line is the word quit in some letter case
QuitWord(l) == Len(l) = 4 /\ \A k \in 1..4 : l[k] \in QuitLetters[k]

\* the line is the word quit in some letter case between runs of
\* whitespace
PaddedQuit(l) ==
    \E a \in 0..Len(l) :
        /\ a + 4 <= Len(l)
        /\ \A k \in 1..a : l[k] \in Whitespace
        /\ \A k \in 1..4 : l[a + k] \in QuitLetters[k]
        /\ \A k \in (a + 5)..Len(l) : l[k] \in Whitespace

\* C17 as stated: chat_loop ends on the lines that are equal to quit in
\* some letter case and on no other line.
C17_QuitOnlyOnExactWord == pc = "returned" => QuitWord(line)

\* C17 amended: a line that is quit in some letter case once the whitespace
\* around it is stripped ends the loop: no model call and no tool invocation
\* is made for it, chat_loop returns, session and transport are closed and
\* nothing runs afterwards; every other line starts a query on the stripped
\* line.
C17_QuitAfterStrip ==
    /\ [][ pc = "prompt" =>
              /\ pc' = "returned" =>
                    /\ PaddedQuit(line')
                    /\ ~sessionOpen' /\ ~transportOpen'
                    /\ modelCalls' = 0
                    /\ invoked' = <<>>
                    /\ stdout' = stdout
              /\ pc' = "model_call" =>
                    /\ ~PaddedQuit(line')
                    /\ IsPrefix(query', line') \/ IsPrefix(query', Tail(line'))
                    /\ messages' = <<UserTurn(query')>>
                    /\ modelCalls' = 1
              /\ pc' \in {"returned", "model_call", "prompt", "raised"} ]_vars
    /\ [](pc = "prompt" => (ENABLED Quit /\ ENABLED StartQuery))
    /\ [](pc = "returned" => ~ENABLED Next)

\* chat_loop has returned on the line " quit "
C17_Witness ==
    /\ pc = "returned"
    /\ line = <<" ", "q", "u", "i", "t", " ">>
    /\ ~sessionOpen

----------------------------------------------------------------------------
\* every response of the query so far carries a tool request
OnlyToolResponses == \A n \in 1..Len(history) : history[n] > 0

\* C19: the loop of process_query ends by a tool-call-free response and by
\* nothing else.  At Done the latest response is tool-call-free, every
\* response before it carried tool requests and the round of each of them
\* has been executed in full; a response with tool requests, in whatever
\* round, starts its round and cannot lead to Done, so that a query whose
\* responses all carry tool requests is never at Done.
C19_DoneOnlyByToolFreeResponse ==
    /\ [](pc = "done" =>
             /\ Last(history) = 0
             /\ \A n \in 1..(Len(history) - 1) : history[n] > 0
             /\ modelCalls = Len(history)
             /\ AssistantSizes(messages) =
                    SubSeq(history, 1, Len(history) - 1)
             /\ Len(ResultIds(messages)) = Issued
             /\ Len(invoked) = Issued)
    /\ []((InQuery /\ OnlyToolResponses) =>
             /\ pc # "done"
             /\ modelCalls \in {Len(history), Len(history) + 1}
             /\ (pc = "inspect" =>
                     (ENABLED BeginRound /\ ~ENABLED FinalAnswer)))
    /\ [][ /\ pc' = "done" =>
                 (pc = "inspect" /\ response.tool_calls = <<>>)
           /\ (pc = "inspect" /\ response.tool_calls # <<>>) =>
                 (pc' = "tool_loop" /\ Len(messages') = Len(messages) + 1)
           /\ (pc = "inspect" /\ response.tool_calls = <<>>) =>
                 pc' = "done" ]_vars

\* Done after three rounds of one tool request each
C19_Witness ==
    /\ pc = "done"
    /\ history = <<1, 1, 1, 0>>
    /\ modelCalls = 4
    /\ Len(messages) = 7

----------------------------------------------------------------------------
\* The tool provider of src/server.py: search_papers and extract_info over
\* the paper store under PAPER_DIR.

\* the topics a caller may pass, as sequences of characters
Topics ==
    { <<"Q", " ", "s">>,
      <<"q", "_", "s">>,
      <<"h", "i">> }

\* str.replace(" ", "_")
ReplaceBlanks(s) == [k \in 1..Len(s) |-> IF s[k] = " " THEN "_" ELSE s[k]]

\* topic.lower().replace(" ", "_"), the name of the topic directory
TopicKey(topic) == ReplaceBlanks(Lower(topic))

TopicKeys == { TopicKey(t) : t \in Topics }

PaperIds == {"1", "2"}

\* the papers arxiv may return; get_short_id() is the field id
ArxivPapers ==
    { [id |-> n, title |-> "new", authors |-> <<"A">>, summary |-> "s",
       pdf_url |-> "u", published |-> "2024-01-01"] : n \in PaperIds }

\* the results of one search: at most MaxResults papers
ArxivResults == UNION { [1..n -> ArxivPapers] : n \in 0..MaxResults }

\* paper_info of a paper
PaperInfo(paper) ==
    [title |-> paper.title, authors |-> paper.authors,
     summary |-> paper.summary, pdf_url |-> paper.pdf_url,
     published |-> paper.published]

\* a record saved by an earlier run
OldInfo ==
    [title |-> "old", authors |-> <<"B">>, summary |-> "s",
     pdf_url |-> "u", published |-> "2020-01-01"]

\* States of a topic: no directory, a directory without papers_info.json,
\* a file that is no JSON, a file holding a JSON object.
Absent == [kind |-> "absent"]
NoFile == [kind |-> "nofile"]
Invalid == [kind |-> "invalid"]
JsonFile(papers) == [kind |-> "json", papers |-> papers]

EmptyDict == [id \in {} |-> OldInfo]

\* the stores the provider may find when it starts
FileStates ==
    { Absent, NoFile, Invalid }
    \cup { JsonFile([id \in ids |-> OldInfo]) : ids \in SUBSET PaperIds }

Stores ==
    { NoStore }
    \cup { [dir |-> TRUE, topics |-> t] : t \in [TopicKeys -> FileStates] }

\* the topics of a store; without PAPER_DIR there is none
TopicsOf(st) ==
    IF st.dir THEN st.topics ELSE [k \in TopicKeys |-> Absent]

\* os.makedirs(path, exist_ok=True)
MakeDirs(st, key) ==
    [dir |-> TRUE,
     topics |-> [k \in TopicKeys |->
                    IF k = key /\ TopicsOf(st)[k] = Absent
                    THEN NoFile
                    ELSE TopicsOf(st)[k]]]

\* Every search starts from an empty papers_info.
LoadExisting_Fresh(file) == EmptyDict

\* json.load of the existing file; FileNotFoundError and JSONDecodeError
\* give an empty papers_info
LoadExisting(file) ==
    IF file.kind = "json" THEN file.papers ELSE EmptyDict

\* papers_info[paper.get_short_id()] = paper_info
Put(d, paper) ==
    [id \in DOMAIN d \cup {paper.id} |->
        IF id = paper.id THEN PaperInfo(paper) ELSE d[id]]

\* for paper in papers
RECURSIVE AddPapers(_, _)
AddPapers(d, papers) ==
    IF papers = <<>> THEN d
    ELSE AddPapers(Put(d, Head(papers)), Tail(papers))

\* json.dumps(value, indent=2)
JsonDumps(value) == [json |-> value]

\* f"There's no saved information related to paper {paper_id}."
NoInfoMessage(paper_id) == [message |-> "no saved information",
                            paper_id |-> paper_id]

ServerInit ==
    /\ ClientInit
    /\ store \in Stores
    /\ reply = NoReply

\* search_papers(topic) returns: the topic directory is made, the existing
\* papers_info loaded, the papers of the search added and the file written
SearchPapers ==
    \E topic \in Topics, papers \in ArxivResults :
        LET key == TopicKey(topic)
            made == MakeDirs(store, key)
            papers_info == AddPapers(LoadExisting(made.topics[key]), papers)
        IN  /\ store' = [made EXCEPT !.topics[key] = JsonFile(papers_info)]
            /\ reply' = [op |-> "search_papers", arg |-> topic,
                         kind |-> "return",
                         value |-> [n \in 1..Len(papers) |-> papers[n].id]]
            /\ UNCHANGED clientVars

\* the arxiv request fails while the for loop draws the papers: the
\* directories are made, the file is not written
SearchPapersFails ==
    \E topic \in Topics :
        /\ store' = MakeDirs(store, TopicKey(topic))
        /\ reply' = [op |-> "search_papers", arg |-> topic,
                     kind |-> "raise", value |-> "arxiv"]
        /\ UNCHANGED clientVars

\* the topics whose papers_info.json is read and holds paper_id
Holding(paper_id) ==
    { k \in TopicKeys :
        /\ TopicsOf(store)[k].kind = "json"
        /\ paper_id \in DOMAIN TopicsOf(store)[k].papers }

\* extract_info(paper_id) returns: the record of the first topic of
\* os.listdir that holds paper_id, or the message
ExtractInfo ==
    /\ store.dir
    /\ \E paper_id \in PaperIds :
         \E v \in IF Holding(paper_id) = {}
                  THEN { NoInfoMessage(paper_id) }
                  ELSE { JsonDumps(store.topics[k].papers[paper_id]) :
                           k \in Holding(paper_id) } :
             reply' = [op |-> "extract_info", arg |-> paper_id,
                       kind |-> "return", value |-> v]
    /\ UNCHANGED <<store, clientVars>>

\* os.listdir(PAPER_DIR) raises FileNotFoundError outside of any try
ExtractInfoFails ==
    /\ ~store.dir
    /\ \E paper_id \in PaperIds :
         reply' = [op |-> "extract_info", arg |-> paper_id,
                   kind |-> "raise", value |-> "FileNotFoundError"]
    /\ UNCHANGED <<store, clientVars>>

ServerNext ==
    \/ SearchPapers
    \/ SearchPapersFails
    \/ ExtractInfo
    \/ ExtractInfoFails

ServerSpec == ServerInit /\ [][ServerNext]_vars

\* C18: extract_info returns for every paper_id and every store, the
\* missing store directory included: the saved record as JSON when a
\* readable topic file holds paper_id, the message otherwise.
C18_ExtractInfoNeverRaises ==
    reply.op = "extract_info" =>
        /\ reply.kind = "return"
        /\ IF Holding(reply.arg) = {}
           THEN reply.value = NoInfoMessage(reply.arg)
           ELSE \E k \in Holding(reply.arg) :
                    reply.value = JsonDumps(store.topics[k].papers[reply.arg])

\* the elements of a sequence
Range(s) == { s[n] : n \in 1..Len(s) }

\* C20: a search_papers(topic) that returns leaves every topic with another
\* key as it was; when the topic file held a JSON object before, it holds
\* one afterwards whose identifiers are the old ones and the returned ones,
\* with a record for every returned identifier and the old record under
\* every identifier that was not returned.
C20_SearchTouchesOnlyItsTopic ==
    [][ (reply'.op = "search_papers" /\ reply'.kind = "return") =>
            LET key == TopicKey(reply'.arg)
                before == TopicsOf(store)[key]
                after == store'.topics[key]
                returned == Range(reply'.value)
            IN  /\ store'.dir
                /\ \A k \in TopicKeys \ {key} :
                      store'.topics[k] = TopicsOf(store)[k]
                /\ after.kind = "json"
                /\ returned \subseteq DOMAIN after.papers
                /\ before.kind = "json" =>
                      /\ DOMAIN after.papers =
                             DOMAIN before.papers \cup returned
                      /\ \A id \in DOMAIN before.papers \ returned :
                            after.papers[id] = before.papers[id] ]_vars

\* a search on "Q s" has returned paper 1 and the topic q_s holds the new
\* record of paper 1 beside the old record of paper 2, the topic hi as before
C20_Witness ==
    /\ reply.op = "search_papers"
    /\ reply.kind = "return"
    /\ reply.arg = <<"Q", " ", "s">>
    /\ reply.value = <<"1">>
    /\ store.dir
    /\ store.topics[<<"q", "_", "s">>].kind = "json"
    /\ DOMAIN store.topics[<<"q", "_", "s">>].papers = {"1", "2"}
    /\ store.topics[<<"q", "_", "s">>].papers["1"].title = "new"
    /\ store.topics[<<"q", "_", "s">>].papers["2"] = OldInfo
    /\ store.topics[<<"h", "i">>] = JsonFile([id \in {"1"} |-> OldInfo])

====
